---------------------------- MODULE Spec2Model ----------------------------
(***************************************************************************)
(* Model of examples/basic_usage/main.cpp: the version reporter.           *)
(*                                                                         *)
(* main() inserts six lines into std::cout, each ended by std::endl, and   *)
(* returns 0.  The four PROJECT_VERSION* macros come from the generated    *)
(* header version.h.  Text is modelled as a sequence of characters, the    *)
(* stream as a buffer (characters inserted and not yet flushed), the       *)
(* content handed to standard output, and a count of the flushes.          *)
(***************************************************************************)
EXTENDS Integers, Sequences, FiniteSets, TLC

VARIABLES
  PROJECT_VERSION,        \* version.h: the display string, a character sequence
  PROJECT_VERSION_MAJOR,  \* version.h: integer
  PROJECT_VERSION_MINOR,  \* version.h: integer
  PROJECT_VERSION_PATCH,  \* version.h: integer
  argv,                   \* the command line the process was started with
  env,                    \* files, network and environment outside the process
  pc,                     \* <<line, k>>: at source line `line`, k insertions done
  cout,                   \* [buf, out, flushes]: the stream std::cout
  exit,                   \* <<>> while main runs, <<status>> once it has returned
  history                 \* [argv, out, exit] of the earlier runs of the same build

vars == <<PROJECT_VERSION, PROJECT_VERSION_MAJOR, PROJECT_VERSION_MINOR,
          PROJECT_VERSION_PATCH, argv, env, pc, cout, exit, history>>

macros == <<PROJECT_VERSION, PROJECT_VERSION_MAJOR, PROJECT_VERSION_MINOR,
            PROJECT_VERSION_PATCH>>

-----------------------------------------------------------------------------
(* Bounds *)

MaxVersion == 10

MaxNegative == 1

MaxAny == 2

MaxArgs == 1

MaxEnv == 1

MaxRuns == 2

MaxTwice == 2

-----------------------------------------------------------------------------
(* The string literals of main() *)

Title ==
  <<"B","a","s","i","c"," ","E","x","a","m","p","l","e"," ",
    "A","p","p","l","i","c","a","t","i","o","n">>

Separator ==
  <<"-","-","-","-","-","-","-","-","-","-","-","-",
    "-","-","-","-","-","-","-","-","-","-","-","-">>

VersionLabel == <<"V","e","r","s","i","o","n",":"," ">>

MajorLabel == <<"M","a","j","o","r",":"," ">>

MinorLabel == <<"M","i","n","o","r",":"," ">>

PatchLabel == <<"P","a","t","c","h",":"," ">>

NL == "\n"

-----------------------------------------------------------------------------
(* operator<< on an int: decimal digits, a leading '-' when negative *)

Digit(d) ==
  CASE d = 0 -> "0" [] d = 1 -> "1" [] d = 2 -> "2" [] d = 3 -> "3"
    [] d = 4 -> "4" [] d = 5 -> "5" [] d = 6 -> "6" [] d = 7 -> "7"
    [] d = 8 -> "8" [] d = 9 -> "9"

RECURSIVE NatToStr(_)
NatToStr(n) ==
  IF n < 10 THEN <<Digit(n)>>
  ELSE NatToStr(n \div 10) \o <<Digit(n % 10)>>

\* Mutant: the digits come out least significant first
IntToStr_Reversed(n) ==
  IF n < 0 THEN <<"-">> \o NatToStr(-n)
  ELSE IF n < 10 THEN <<Digit(n)>>
  ELSE <<Digit(n % 10)>> \o NatToStr(n \div 10)

IntToStr(n) ==
  IF n < 0 THEN <<"-">> \o NatToStr(-n) ELSE NatToStr(n)

-----------------------------------------------------------------------------
(* version.h, generated at build time: the descriptors a build produces *)

DigitChars == <<"0","1","2","3","4","5","6","7","8","9">>

\* The decimal numeral of an integer
RECURSIVE Numeral(_)
Numeral(n) ==
  IF n < 0 THEN <<"-">> \o Numeral(0 - n)
  ELSE IF n <= 9 THEN <<DigitChars[n + 1]>>
  ELSE Numeral(n \div 10) \o <<DigitChars[(n % 10) + 1]>>

\* displayString: "{major}.{minor}.{patch}"
VersionString(M, N, P) ==
  Numeral(M) \o <<".">> \o Numeral(N) \o <<".">> \o Numeral(P)

Versions == 0 .. MaxVersion

AnyInts == (0 - MaxNegative) .. MaxAny

AnyStrings ==
  {<<>>, <<"d","e","v">>} \cup {VersionString(x, x, x) : x \in AnyInts}

ArgWords == {"--help"}

Args == UNION {[1 .. n -> ArgWords] : n \in 0 .. MaxArgs}

Envs == 0 .. MaxEnv

-----------------------------------------------------------------------------
(* std::cout *)

EmptyStream == [buf |-> <<>>, out |-> <<>>, flushes |-> 0]

\* Mutant: an unbuffered stream, every insertion is handed on at once
Put_Unbuffered(s, text) == [s EXCEPT !.out = @ \o text]

\* operator<<(text): the characters go to the stream's buffer
Put(s, text) == [s EXCEPT !.buf = @ \o text]

\* flush(): the buffered characters are handed to standard output
Flush(s) == [buf |-> <<>>, out |-> s.out \o s.buf, flushes |-> s.flushes + 1]

\* Mutant: '\n' in place of std::endl, the newline is put and nothing is flushed
Endl_NoFlush(s) == Put(s, <<NL>>)

\* std::endl: put('\n'), then flush()
Endl(s) == Flush(Put(s, <<NL>>))

-----------------------------------------------------------------------------
(* main() *)

At(line, k) == pc = <<line, k>> /\ exit = <<>>

Done == exit # <<>>

ProcessStart ==
  /\ pc = <<6, 0>>
  /\ cout = EmptyStream
  /\ exit = <<>>

Init ==
  /\ PROJECT_VERSION_MAJOR \in Versions
  /\ PROJECT_VERSION_MINOR \in Versions
  /\ PROJECT_VERSION_PATCH \in Versions
  /\ PROJECT_VERSION = VersionString(PROJECT_VERSION_MAJOR,
                                     PROJECT_VERSION_MINOR,
                                     PROJECT_VERSION_PATCH)
  /\ argv \in Args
  /\ env \in Envs
  /\ history = <<>>
  /\ ProcessStart

InitTwice ==
  /\ PROJECT_VERSION_MAJOR \in 0 .. MaxTwice
  /\ PROJECT_VERSION_MINOR \in 0 .. MaxTwice
  /\ PROJECT_VERSION_PATCH \in 0 .. MaxTwice
  /\ PROJECT_VERSION = VersionString(PROJECT_VERSION_MAJOR,
                                     PROJECT_VERSION_MINOR,
                                     PROJECT_VERSION_PATCH)
  /\ argv \in Args
  /\ env \in Envs
  /\ history = <<>>
  /\ ProcessStart

InitAny ==
  /\ PROJECT_VERSION_MAJOR \in AnyInts
  /\ PROJECT_VERSION_MINOR \in AnyInts
  /\ PROJECT_VERSION_PATCH \in AnyInts
  /\ PROJECT_VERSION \in AnyStrings
  /\ argv \in Args
  /\ env \in Envs
  /\ history = <<>>
  /\ ProcessStart

\* One insertion into std::cout that is not the last of its statement
Insert(line, k, text) ==
  /\ At(line, k)
  /\ cout' = Put(cout, text)
  /\ pc' = <<line, k + 1>>
  /\ UNCHANGED <<macros, argv, env, exit, history>>

\* The << std::endl that ends the statement at `line`
InsertEndl(line, k, next) ==
  /\ At(line, k)
  /\ cout' = Endl(cout)
  /\ pc' = <<next, 0>>
  /\ UNCHANGED <<macros, argv, env, exit, history>>

\* Mutant: the title line names the command line
L6_Title_Argv == Insert(6, 0, Title \o [i \in 1 .. Len(argv) |-> "*"])

L6_Title == Insert(6, 0, Title)

L6_Endl == InsertEndl(6, 1, 7)

L7_Separator == Insert(7, 0, Separator)

\* Mutant: the separator statement ends without std::endl
L7_Endl_Missing ==
  /\ At(7, 1)
  /\ pc' = <<8, 0>>
  /\ UNCHANGED <<macros, argv, env, cout, exit, history>>

L7_Endl == InsertEndl(7, 1, 8)

L8_Label == Insert(8, 0, VersionLabel)

L8_Value == Insert(8, 1, PROJECT_VERSION)

L8_Endl == InsertEndl(8, 2, 9)

L9_Label == Insert(9, 0, MajorLabel)

\* Mutant: the macro is a variable that the insertion increments
L9_Value_Increment ==
  /\ At(9, 1)
  /\ cout' = Put(cout, IntToStr(PROJECT_VERSION_MAJOR))
  /\ PROJECT_VERSION_MAJOR' = PROJECT_VERSION_MAJOR + 1
  /\ pc' = <<9, 2>>
  /\ UNCHANGED <<PROJECT_VERSION, PROJECT_VERSION_MINOR, PROJECT_VERSION_PATCH,
                 argv, env, exit, history>>

\* Mutant: a negative major version is rejected with exit status 1
L9_Value_Validated ==
  /\ At(9, 1)
  /\ IF PROJECT_VERSION_MAJOR < 0
       THEN /\ exit' = <<1>>
            /\ pc' = <<14, 0>>
            /\ UNCHANGED cout
       ELSE /\ cout' = Put(cout, IntToStr(PROJECT_VERSION_MAJOR))
            /\ pc' = <<9, 2>>
            /\ UNCHANGED exit
  /\ UNCHANGED <<macros, argv, env, history>>

L9_Value == Insert(9, 1, IntToStr(PROJECT_VERSION_MAJOR))

L9_Endl == InsertEndl(9, 2, 10)

L10_Label == Insert(10, 0, MinorLabel)

\* Mutant: the Minor line prints the major version
L10_Value_Major == Insert(10, 1, IntToStr(PROJECT_VERSION_MAJOR))

L10_Value == Insert(10, 1, IntToStr(PROJECT_VERSION_MINOR))

L10_Endl == InsertEndl(10, 2, 11)

L11_Label == Insert(11, 0, PatchLabel)

L11_Value == Insert(11, 1, IntToStr(PROJECT_VERSION_PATCH))

L11_Endl == InsertEndl(11, 2, 13)

\* Mutant: main returns 1
Return_Failure ==
  /\ At(13, 0)
  /\ exit' = <<1>>
  /\ pc' = <<14, 0>>
  /\ UNCHANGED <<macros, argv, env, cout, history>>

\* Mutant: main also returns before the Patch statement
Return_Early ==
  /\ At(13, 0) \/ At(11, 0)
  /\ exit' = <<0>>
  /\ pc' = <<14, 0>>
  /\ UNCHANGED <<macros, argv, env, cout, history>>

\* line 13: return 0
Return ==
  /\ At(13, 0)
  /\ exit' = <<0>>
  /\ pc' = <<14, 0>>
  /\ UNCHANGED <<macros, argv, env, cout, history>>

\* The same build is started again, as a new process
Start ==
  /\ Done
  /\ Len(history) + 1 < MaxRuns
  /\ history' = Append(history,
                        [argv |-> argv, out |-> cout.out, exit |-> exit])
  /\ pc' = <<6, 0>>
  /\ cout' = EmptyStream
  /\ exit' = <<>>
  /\ argv' \in Args
  /\ UNCHANGED <<macros, env>>

Next ==
  \/ L6_Title \/ L6_Endl
  \/ L7_Separator \/ L7_Endl
  \/ L8_Label \/ L8_Value \/ L8_Endl
  \/ L9_Label \/ L9_Value \/ L9_Endl
  \/ L10_Label \/ L10_Value \/ L10_Endl
  \/ L11_Label \/ L11_Value \/ L11_Endl
  \/ Return

NextTwice == Next \/ Start

Spec == Init /\ [][Next]_vars

SpecAny == InitAny /\ [][Next]_vars

SpecTwice == InitTwice /\ [][NextTwice]_vars

FairSpec == Init /\ [][Next]_vars /\ WF_vars(Next)

-----------------------------------------------------------------------------
(* Reading the content of standard output *)

Line(text) == text \o <<NL>>

\* The lines of a text; a last line without its newline is kept as it is
RECURSIVE SplitLines(_)
SplitLines(t) ==
  IF t = <<>> THEN <<>>
  ELSE IF \E i \in 1 .. Len(t) : t[i] = NL
    THEN LET i == CHOOSE j \in 1 .. Len(t) :
                    t[j] = NL /\ \A k \in 1 .. j - 1 : t[k] # NL
         IN  <<SubSeq(t, 1, i - 1)>> \o SplitLines(SubSeq(t, i + 1, Len(t)))
    ELSE <<t>>

Newlines(t) == Cardinality({i \in 1 .. Len(t) : t[i] = NL})

IsPrefix(a, b) == Len(a) <= Len(b) /\ SubSeq(b, 1, Len(a)) = a

After(t, label) == SubSeq(t, Len(label) + 1, Len(t))

Occurrences(l, ls) == Cardinality({i \in 1 .. Len(ls) : ls[i] = l})

Position(l, ls) == CHOOSE i \in 1 .. Len(ls) : ls[i] = l

OutLines == SplitLines(cout.out)

\* The six lines for the macros as they are
ExpectedLines ==
  << Title,
     Separator,
     VersionLabel \o PROJECT_VERSION,
     MajorLabel \o Numeral(PROJECT_VERSION_MAJOR),
     MinorLabel \o Numeral(PROJECT_VERSION_MINOR),
     PatchLabel \o Numeral(PROJECT_VERSION_PATCH) >>

ExpectedReport ==
  Line(ExpectedLines[1]) \o Line(ExpectedLines[2]) \o Line(ExpectedLines[3])
    \o Line(ExpectedLines[4]) \o Line(ExpectedLines[5]) \o Line(ExpectedLines[6])

-----------------------------------------------------------------------------
(* Claims *)

\* C1: for non-negative (M, N, P) with displayString "M.N.P", a complete run
\* has written exactly the six lines title, separator, "Version: M.N.P",
\* "Major: M", "Minor: N", "Patch: P", in this order, and nothing else.
C1_SixLinesInOrder ==
  Done =>
    cout.out =
      Line(Title) \o Line(Separator)
        \o Line(VersionLabel
                  \o VersionString(PROJECT_VERSION_MAJOR, PROJECT_VERSION_MINOR,
                                   PROJECT_VERSION_PATCH))
        \o Line(MajorLabel \o Numeral(PROJECT_VERSION_MAJOR))
        \o Line(MinorLabel \o Numeral(PROJECT_VERSION_MINOR))
        \o Line(PatchLabel \o Numeral(PROJECT_VERSION_PATCH))

\* The boundary (0, 0, 0) has run to completion, with the lines of the spec
C1_Witness ==
  /\ Done
  /\ PROJECT_VERSION_MAJOR = 0
  /\ PROJECT_VERSION_MINOR = 0
  /\ PROJECT_VERSION_PATCH = 0
  /\ Len(OutLines) = 6
  /\ OutLines[3] = VersionLabel \o <<"0", ".", "0", ".", "0">>
  /\ OutLines[4] = MajorLabel \o <<"0">>
  /\ OutLines[5] = MinorLabel \o <<"0">>
  /\ OutLines[6] = PatchLabel \o <<"0">>

\* C2: the text printed after "Version: " is the text printed after "Major: ",
\* a dot, the text printed after "Minor: ", a dot, the text printed after
\* "Patch: ", for every descriptor the build produces.
C2_DisplayConsistent ==
  Len(OutLines) >= 6 /\ Newlines(cout.out) >= 6 =>
    After(OutLines[3], VersionLabel) =
      After(OutLines[4], MajorLabel) \o <<".">>
        \o After(OutLines[5], MinorLabel) \o <<".">>
        \o After(OutLines[6], PatchLabel)

\* A run is complete whose three numbers differ, one of them of two digits
C2_Witness ==
  /\ Done
  /\ PROJECT_VERSION_MAJOR = 10
  /\ PROJECT_VERSION_MINOR = 2
  /\ PROJECT_VERSION_PATCH = 3
  /\ After(OutLines[3], VersionLabel) = <<"1", "0", ".", "2", ".", "3">>
  /\ After(OutLines[4], MajorLabel) = <<"1", "0">>

\* C3: every run terminates, and the only exit status it has is 0.
C3_TerminatesWithZero ==
  /\ <>Done
  /\ [](Done => exit = <<0>>)

\* main has returned, from line 13, with status 0
C3_Witness == pc = <<14, 0>> /\ exit = <<0>> /\ cout.flushes > 0

\* C4: a run of the same build gives the same standard output and the same
\* exit status as every earlier run, whatever the command lines were.
C4_Deterministic ==
  Done =>
    \A i \in 1 .. Len(history) :
      history[i].out = cout.out /\ history[i].exit = exit

\* Two complete runs, started with different command lines
C4_Witness ==
  /\ Done
  /\ Len(history) = 1
  /\ history[1].argv # argv
  /\ history[1].out = cout.out
  /\ cout.out # <<>>

\* C5 as stated: the report is five lines.
C5_FiveLines == Done => Newlines(cout.out) = 5 /\ Len(OutLines) = 5

\* C5 amended: the report is six lines in fixed order: the title, the
\* separator, then one line for each of the labels "Version: ", "Major: ",
\* "Minor: ", "Patch: ".
C5_SixLabelledLines ==
  Done =>
    /\ Newlines(cout.out) = 6
    /\ Len(OutLines) = 6
    /\ OutLines[1] = Title
    /\ OutLines[2] = Separator
    /\ IsPrefix(VersionLabel, OutLines[3])
    /\ IsPrefix(MajorLabel, OutLines[4])
    /\ IsPrefix(MinorLabel, OutLines[5])
    /\ IsPrefix(PatchLabel, OutLines[6])

\* The scenario (1, 2, 3) is complete, six newlines written
C5_Witness ==
  /\ Done
  /\ PROJECT_VERSION = <<"1", ".", "2", ".", "3">>
  /\ Newlines(cout.out) = 6
  /\ OutLines[6] = PatchLabel \o <<"3">>

\* C6: no step changes the descriptor, the command line or anything outside
\* the process; a step changes only the stream and the control position.
C6_Frame ==
  [][ /\ PROJECT_VERSION' = PROJECT_VERSION
      /\ PROJECT_VERSION_MAJOR' = PROJECT_VERSION_MAJOR
      /\ PROJECT_VERSION_MINOR' = PROJECT_VERSION_MINOR
      /\ PROJECT_VERSION_PATCH' = PROJECT_VERSION_PATCH
      /\ env' = env
      /\ argv' = argv
      /\ history' = history ]_vars

\* Process exit, with the report written and the descriptor as built
C6_Witness ==
  /\ Done
  /\ env = 1
  /\ cout.out # <<>>
  /\ PROJECT_VERSION_MAJOR = 1
  /\ PROJECT_VERSION = VersionString(1, PROJECT_VERSION_MINOR, PROJECT_VERSION_PATCH)

\* C7: for every descriptor, negative numbers and a display string that is
\* unrelated to the numbers included, the run cannot stop before main returns,
\* its only exit status is 0, and the values are printed as given.
C7_NoValidation ==
  /\ exit \in {<<>>, <<0>>}
  /\ ~Done => ENABLED Next
  /\ Done => cout.out = ExpectedReport

\* A run is complete for a negative number and an unrelated display string
C7_Witness ==
  /\ Done
  /\ exit = <<0>>
  /\ PROJECT_VERSION_MAJOR < 0
  /\ PROJECT_VERSION = <<"d", "e", "v">>
  /\ OutLines[3] = VersionLabel \o <<"d", "e", "v">>
  /\ OutLines[4] = MajorLabel \o <<"-", "1">>

\* C8 as stated: one flush in the whole run.
C8_FlushedOnce == Done => cout.flushes = 1

\* C8 amended: the stream is flushed once per line, six times in a run, and
\* every flush hands exactly one line to standard output.
C8_FlushedPerLine ==
  /\ cout.flushes = Newlines(cout.out)
  /\ Done => cout.flushes = 6 /\ cout.buf = <<>>

\* The run is complete after six flushes
C8_Witness == Done /\ cout.flushes = 6 /\ Newlines(cout.out) = 6

\* C9: main has returned only after all six lines were written, each exactly
\* once, title before separator before Version before Major before Minor
\* before Patch, with nothing left unwritten.
C9_AllLinesOnceInOrder ==
  Done =>
    /\ cout.buf = <<>>
    /\ \A i \in 1 .. 6 : Occurrences(ExpectedLines[i], OutLines) = 1
    /\ \A i \in 1 .. 5 :
         Position(ExpectedLines[i], OutLines)
           < Position(ExpectedLines[i + 1], OutLines)

\* The run of (1, 1, 1) is complete: three lines end alike and are still
\* written once each
C9_Witness ==
  /\ Done
  /\ PROJECT_VERSION_MAJOR = 1
  /\ PROJECT_VERSION_MINOR = 1
  /\ PROJECT_VERSION_PATCH = 1
  /\ Occurrences(PatchLabel \o <<"1">>, OutLines) = 1
  /\ Position(Title, OutLines) = 1

\* Standard output holds whole lines only, and they begin the final report
WholeLinePrefix ==
  /\ IsPrefix(cout.out, ExpectedReport)
  /\ cout.out # <<>> => cout.out[Len(cout.out)] = NL
  /\ Len(OutLines) \in 0 .. 6

\* A step leaves standard output as it is or appends one whole line to it,
\* with a flush
AppendsOneLine ==
  \/ cout'.out = cout.out /\ cout'.flushes = cout.flushes
  \/ /\ IsPrefix(cout.out, cout'.out)
     /\ Newlines(cout'.out) = Newlines(cout.out) + 1
     /\ cout'.out[Len(cout'.out)] = NL
     /\ cout'.flushes = cout.flushes + 1

=============================================================================
